---- MODULE Spec2Model ----
(***************************************************************************)
(* A model of the Logger class of murolem/logger (src/src/index.ts) and of *)
(* the helpers it calls.  JavaScript values are tagged records; a plain    *)
(* object keeps its own keys in insertion order (keys) and their values    *)
(* (f).  One call of log is one action: it resolves the ambiguous third    *)
(* argument, writes to the console, composes the modal text and throws.    *)
(***************************************************************************)
EXTENDS Integers, Sequences, FiniteSets, TLC

VARIABLES
    loggers,       \* logger id -> [prefixParts, prefixBody] (#prefixParts, #prefixBody)
    hostHasAlert,  \* 'alert' in globalThis
    errMessage,    \* Error instance id -> its message
    call,          \* the call: [op, self, level, msg, arg3, arg4, errBefore]
    events,        \* what the call did, in order: console writes and modals
    outcome,       \* how the call ended: returned, or what it threw
    argsAfter,     \* the caller's arg3 and arg4 objects, as the call leaves them
    resolved,      \* the options of log after "check arg3" and "check arg4"
    pc             \* "call": the call is about to run; "done": it has ended

vars == <<loggers, hostHasAlert, errMessage, call, events, outcome, argsAfter, resolved, pc>>

-----------------------------------------------------------------------------
(* Bounds of the model *)

\* The most own keys the caller puts into arg3 and arg4 together in one call.
MaxKeys == 3
\* The most loggers a run creates.
MaxLoggers == 2
\* The most prefixes a logger holds.
MaxPrefixLen == 3
\* The most names in the props a caller of doesObjectOnlyHaveSpecificProps passes.
MaxProps == 3

-----------------------------------------------------------------------------
(* JavaScript values *)

Undef == [t |-> "undefined"]
Null == [t |-> "null"]
Bool(b) == [t |-> "boolean", b |-> b]
Num(n) == [t |-> "number", n |-> n]
Str(s) == [t |-> "string", s |-> s]
BigIntV(n) == [t |-> "bigint", big |-> n]
Fn(name) == [t |-> "function", name |-> name]
Arr(xs) == [t |-> "array", xs |-> xs]
Obj(keys, f) == [t |-> "object", keys |-> keys, f |-> f]
Err(id) == [t |-> "error", id |-> id]
\* A reference from inside an object back to an object that contains it.
Cycle == [t |-> "cycle"]

NoProps == [k \in {} |-> Undef]
EmptyObj == Obj(<<>>, NoProps)

\* obj[key] = v on a plain object: a new key goes last, an old one keeps its place.
SetProp(obj, key, v) ==
    IF key \in DOMAIN obj.f
    THEN Obj(obj.keys, [obj.f EXCEPT ![key] = v])
    ELSE Obj(Append(obj.keys, key), (key :> v) @@ obj.f)

\* obj[key] read on a plain object: an own property, or undefined.
GetProp(obj, key) == IF key \in DOMAIN obj.f THEN obj.f[key] ELSE Undef

\* ToBoolean
Truthy(v) ==
    CASE v.t = "undefined" -> FALSE
      [] v.t = "null" -> FALSE
      [] v.t = "boolean" -> v.b
      [] v.t = "number" -> v.n # 0
      [] v.t = "bigint" -> v.big # 0
      [] v.t = "string" -> v.s # ""
      [] OTHER -> TRUE

\* The source text of the functions of the model, as Function.prototype.toString
\* gives it.
FnSource(name) ==
    CASE name = "helloWorld" -> "() => 'hello world'"
      [] name = "helloToBar" -> "(key, value) => key === 'hello' ? 'bar' : value"
      [] OTHER -> "() => { }"

\* ToString, as `prefix + msg` applies it: an array joins the texts of its
\* elements with ",", null and undefined elements giving the empty text.
RECURSIVE JsToString(_)
JsToString(v) ==
    CASE v.t = "string" -> v.s
      [] v.t = "number" -> ToString(v.n)
      [] v.t = "bigint" -> ToString(v.big)
      [] v.t = "boolean" -> (IF v.b THEN "true" ELSE "false")
      [] v.t = "undefined" -> "undefined"
      [] v.t = "null" -> "null"
      [] v.t = "function" -> FnSource(v.name)
      [] v.t = "array" ->
            (IF Len(v.xs) = 0 THEN ""
             ELSE LET first == IF v.xs[1] \in {Undef, Null} THEN "" ELSE JsToString(v.xs[1])
                  IN  IF Len(v.xs) = 1 THEN first
                      ELSE first \o "," \o JsToString(Arr(Tail(v.xs))))
      [] OTHER -> "[object Object]"

\* value?.constructor?.name
ConstructorName(v) ==
    CASE v.t = "undefined" -> "<none>"
      [] v.t = "null" -> "<none>"
      [] v.t = "boolean" -> "Boolean"
      [] v.t = "number" -> "Number"
      [] v.t = "bigint" -> "BigInt"
      [] v.t = "string" -> "String"
      [] v.t = "function" -> "Function"
      [] v.t = "array" -> "Array"
      [] v.t = "error" -> "Error"
      [] v.t = "object" -> "Object"
      [] OTHER -> "<none>"

-----------------------------------------------------------------------------
(* The helpers of the logger *)

paramNames == <<"additional", "alwaysLogAdditional", "stringifyAdditional", "throwErr", "alertMsg">>

isObject(value) == value # Null /\ ConstructorName(value) = "Object"

\* Mutant: the fallback replaces every falsy value, as `value || fallbackValue`.
fallbackIfNullish_Falsy(value, fallbackValue) ==
    IF Truthy(value) THEN value ELSE fallbackValue

fallbackIfNullish(value, fallbackValue) ==
    IF value = Undef \/ value = Null THEN fallbackValue ELSE value

\* Object.hasOwn(obj, property) for the property names the logger asks for:
\* of the modelled values only a plain object has them as own properties.
HasOwn(obj, property) == obj.t = "object" /\ property \in DOMAIN obj.f

objectGetOwnOrFallback(obj, property, fallbackValue) ==
    IF HasOwn(obj, property) THEN obj.f[property] ELSE fallbackValue

SeqToSet(s) == {s[i] : i \in DOMAIN s}

\* Mutant: props is counted as given, duplicates and all, as objectHasOwnOnly does.
doesObjectOnlyHaveSpecificProps_CountsDuplicates(obj, props, emptyObjectSatisfies, fullMatchRequired) ==
    LET propsSet == SeqToSet(props)
        ownProps == obj.keys
    IN  IF Len(ownProps) > Len(props) THEN FALSE
        ELSE IF Len(ownProps) = 0 THEN emptyObjectSatisfies
        ELSE IF ~(\A i \in DOMAIN ownProps : ownProps[i] \in propsSet) THEN FALSE
        ELSE IF fullMatchRequired THEN Len(ownProps) = Len(props)
        ELSE TRUE

\* Mutant: the check of each own key against props is left out.
doesObjectOnlyHaveSpecificProps_NoKeyCheck(obj, props, emptyObjectSatisfies, fullMatchRequired) ==
    LET propsSet == SeqToSet(props)
        ownProps == obj.keys
    IN  IF Len(ownProps) > Cardinality(propsSet) THEN FALSE
        ELSE IF Len(ownProps) = 0 THEN emptyObjectSatisfies
        ELSE IF fullMatchRequired THEN Len(ownProps) = Cardinality(propsSet)
        ELSE TRUE

doesObjectOnlyHaveSpecificProps(obj, props, emptyObjectSatisfies, fullMatchRequired) ==
    LET propsSet == SeqToSet(props)
        ownProps == obj.keys
    IN  IF Len(ownProps) > Cardinality(propsSet) THEN FALSE
        ELSE IF Len(ownProps) = 0 THEN emptyObjectSatisfies
        ELSE IF ~(\A i \in DOMAIN ownProps : ownProps[i] \in propsSet) THEN FALSE
        ELSE IF fullMatchRequired THEN Len(ownProps) = Cardinality(propsSet)
        ELSE TRUE

-----------------------------------------------------------------------------
(* JSON.stringify(value, replacer, space), as log calls it *)

\* The marker of a TypeError raised while serializing.
JsonThrows == [t |-> "throw"]

RECURSIVE Spaces(_)
Spaces(n) == IF n <= 0 THEN "" ELSE " " \o Spaces(n - 1)

\* The indentation unit: a number gives that many spaces (at most 10), a
\* string gives itself (at most 10 characters), anything else gives none.
JsonGap(space) ==
    CASE space.t = "number" -> Spaces(IF space.n > 10 THEN 10 ELSE space.n)
      [] space.t = "string" -> (IF Len(space.s) <= 10 THEN space.s ELSE SubSeq(space.s, 1, 10))
      [] OTHER -> ""

JsonQuote(s) == "\"" \o s \o "\""

RECURSIVE JoinStr(_, _)
JoinStr(parts, sep) ==
    IF Len(parts) = 0 THEN ""
    ELSE IF Len(parts) = 1 THEN parts[1]
    ELSE parts[1] \o sep \o JoinStr(Tail(parts), sep)

\* The replacer functions of the model, called as replacer(key, value).
CallReplacer(replacer, key, value) ==
    IF replacer.name = "helloToBar"
    THEN (IF key = "hello" THEN Str("bar") ELSE value)
    ELSE value

\* The keys an object is serialized with: the replacer array when there is
\* one (as strings, without duplicates), the own keys otherwise.
RECURSIVE Dedup(_)
Dedup(s) ==
    IF Len(s) = 0 THEN <<>>
    ELSE LET rest == Dedup(SubSeq(s, 1, Len(s) - 1))
             last == s[Len(s)]
         IN  IF last \in SeqToSet(rest) THEN rest ELSE Append(rest, last)

JsonKeys(obj, replacer) ==
    IF replacer.t = "array"
    THEN Dedup([i \in DOMAIN replacer.xs |-> JsToString(replacer.xs[i])])
    ELSE IF obj.t = "object" THEN obj.keys ELSE <<>>

RECURSIVE JsonSer(_, _, _, _, _)
\* SerializeJSONProperty: Str(text), Undef (nothing to write) or JsonThrows.
JsonSer(key, value0, replacer, gap, indent) ==
    LET value == IF replacer.t = "function" THEN CallReplacer(replacer, key, value0) ELSE value0
        inner == indent \o gap
        sepKV == IF gap = "" THEN ":" ELSE ": "
        Wrap(open, close, parts) ==
            IF Len(parts) = 0 THEN open \o close
            ELSE IF gap = "" THEN open \o JoinStr(parts, ",") \o close
            ELSE open \o "\n" \o inner \o JoinStr(parts, ",\n" \o inner) \o "\n" \o indent \o close
    IN  CASE value.t = "null" -> Str("null")
          [] value.t = "boolean" -> Str(IF value.b THEN "true" ELSE "false")
          [] value.t = "number" -> Str(ToString(value.n))
          [] value.t = "string" -> Str(JsonQuote(value.s))
          [] value.t = "bigint" -> JsonThrows
          [] value.t = "cycle" -> JsonThrows
          [] value.t = "array" ->
                LET items == [i \in DOMAIN value.xs |->
                                 JsonSer(ToString(i - 1), value.xs[i], replacer, gap, inner)]
                IN  IF \E i \in DOMAIN items : items[i] = JsonThrows THEN JsonThrows
                    ELSE Str(Wrap("[", "]",
                             [i \in DOMAIN items |->
                                 IF items[i] = Undef THEN "null" ELSE items[i].s]))
          [] value.t \in {"object", "error"} ->
                LET ks == JsonKeys(value, replacer)
                    own == SelectSeq(ks, LAMBDA k : value.t = "object" /\ k \in DOMAIN value.f)
                    items == [i \in DOMAIN own |->
                                 JsonSer(own[i], value.f[own[i]], replacer, gap, inner)]
                    kept == SelectSeq([i \in DOMAIN own |-> i], LAMBDA i : items[i] # Undef)
                IN  IF \E i \in DOMAIN items : items[i] = JsonThrows THEN JsonThrows
                    ELSE Str(Wrap("{", "}",
                             [j \in DOMAIN kept |->
                                 JsonQuote(own[kept[j]]) \o sepKV \o items[kept[j]].s]))
          [] OTHER -> Undef

JSONstringify(value, replacer, space) == JsonSer("", value, replacer, JsonGap(space), "")

-----------------------------------------------------------------------------
(* The Logger class *)

LogLevels == {"debug", "info", "warn", "error"}

\* Mutant: the body is joined from the new prefixes only.
appendPrefix_BodyOfNewOnly(logger, prefix) ==
    LET parts == logger.prefixParts \o prefix
    IN  [prefixParts |-> parts, prefixBody |-> JoinStr(prefix, " > ")]

\* appendPrefix: push the prefixes, then rebuild the cached body.
appendPrefix(logger, prefix) ==
    LET parts == logger.prefixParts \o prefix
    IN  [prefixParts |-> parts, prefixBody |-> JoinStr(parts, " > ")]

\* new Logger(...prefix): the fields start empty and the constructor appends.
\* (#prefixBody is undefined only until the constructor's appendPrefix.)
NewLogger(prefix) == appendPrefix([prefixParts |-> <<>>, prefixBody |-> ""], prefix)

\* The initial values of the five options inside log.
DefaultParams ==
    [additional |-> Undef,
     alwaysLogAdditional |-> Undef,
     stringifyAdditional |-> Undef,
     alertMsg |-> Undef,
     throwErr |-> Bool(FALSE)]

\* Mutant: arg3 counts as params only when it has all five option keys.
isArg3IsParamsObj_FullMatch(arg3, arg4) ==
    /\ arg3 # Undef
    /\ arg4 = Undef
    /\ isObject(arg3)
    /\ doesObjectOnlyHaveSpecificProps(arg3, paramNames, FALSE, TRUE)

\* Mutant: arg4 is not looked at when arg3 is classified.
isArg3IsParamsObj_IgnoresArg4(arg3, arg4) ==
    /\ arg3 # Undef
    /\ isObject(arg3)
    /\ doesObjectOnlyHaveSpecificProps(arg3, paramNames, FALSE, FALSE)

\* The decision of log about its third argument.
isArg3IsParamsObj(arg3, arg4) ==
    /\ arg3 # Undef
    /\ arg4 = Undef
    /\ isObject(arg3)
    /\ doesObjectOnlyHaveSpecificProps(arg3, paramNames, FALSE, FALSE)

\* stringifyAdditional.space = fallbackIfNullish(stringifyAdditional.space, 2),
\* done when stringifyAdditional is a plain object.
SpaceDefaulted(stringifyAdditional) ==
    IF isObject(stringifyAdditional)
    THEN SetProp(stringifyAdditional, "space",
                 fallbackIfNullish(GetProp(stringifyAdditional, "space"), Num(2)))
    ELSE stringifyAdditional

\* The reads of the options from a params object (arg3 with `additional`,
\* arg4 without it), over the values resolved so far.
ReadParams(params, cur, withAdditional) ==
    [additional |->
        IF withAdditional
        THEN objectGetOwnOrFallback(params, "additional", cur.additional)
        ELSE cur.additional,
     alwaysLogAdditional |->
        objectGetOwnOrFallback(params, "alwaysLogAdditional", cur.alwaysLogAdditional),
     stringifyAdditional |->
        SpaceDefaulted(objectGetOwnOrFallback(params, "stringifyAdditional", cur.stringifyAdditional)),
     alertMsg |-> objectGetOwnOrFallback(params, "alertMsg", cur.alertMsg),
     throwErr |-> objectGetOwnOrFallback(params, "throwErr", cur.throwErr)]

\* The params object as the caller sees it after the reads: the assignment to
\* .space lands in the caller's own stringifyAdditional object.
ParamsAfter(params) ==
    IF HasOwn(params, "stringifyAdditional") /\ isObject(params.f["stringifyAdditional"])
    THEN SetProp(params, "stringifyAdditional", SpaceDefaulted(params.f["stringifyAdditional"]))
    ELSE params

\* Mutant: the guard of "check arg4" is `arg4 !== undefined`.
ReadsArg4_UnlessUndefined(arg4) == arg4 # Undef

\* `if (arg4)`, the guard under which arg4 is read as the params object.
ReadsArg4(arg4) == Truthy(arg4)

\* The resolution raises: Object.hasOwn(params, ...) converts params to an
\* object, which is a TypeError for undefined and null. (arg3 is read with
\* Object.keys and Object.hasOwn only once isObject(arg3) has held.)
ResolveRaises(arg3, arg4) ==
    ~isArg3IsParamsObj(arg3, arg4) /\ ReadsArg4(arg4) /\ arg4 \in {Undef, Null}

\* Mutant: "check arg4" is left out, arg4 is never read.
ResolveParams_NoArg4(arg3, arg4) ==
    IF arg3 = Undef THEN DefaultParams
    ELSE IF isArg3IsParamsObj(arg3, arg4) THEN ReadParams(arg3, DefaultParams, TRUE)
    ELSE [DefaultParams EXCEPT !.additional = arg3]

\* Mutant: "check arg4" reads `additional` from arg4 as "check arg3" does
\* from arg3.
ResolveParams_Arg4WithAdditional(arg3, arg4) ==
    LET isParams == isArg3IsParamsObj(arg3, arg4)
        afterArg3 ==
            IF arg3 = Undef THEN DefaultParams
            ELSE IF isParams THEN ReadParams(arg3, DefaultParams, TRUE)
            ELSE [DefaultParams EXCEPT !.additional = arg3]
    IN  IF isParams THEN afterArg3
        ELSE IF ReadsArg4(arg4) THEN ReadParams(arg4, afterArg3, TRUE)
        ELSE afterArg3

\* Mutant: arg4 is read only when arg3 is defined.
ResolveParams_Arg4NeedsArg3(arg3, arg4) ==
    IF arg3 = Undef THEN DefaultParams
    ELSE IF isArg3IsParamsObj(arg3, arg4) THEN ReadParams(arg3, DefaultParams, TRUE)
    ELSE IF Truthy(arg4) THEN ReadParams(arg4, [DefaultParams EXCEPT !.additional = arg3], FALSE)
    ELSE [DefaultParams EXCEPT !.additional = arg3]

\* "check arg3" and "check arg4": the five options as log resolves them.
ResolveParams(arg3, arg4) ==
    LET isParams == isArg3IsParamsObj(arg3, arg4)
        afterArg3 ==
            IF arg3 = Undef
            THEN (IF Truthy(DefaultParams.alwaysLogAdditional)
                  THEN [DefaultParams EXCEPT !.additional = arg3]
                  ELSE DefaultParams)
            ELSE IF isParams THEN ReadParams(arg3, DefaultParams, TRUE)
            ELSE [DefaultParams EXCEPT !.additional = arg3]
    IN  IF isParams THEN afterArg3
        ELSE IF ReadsArg4(arg4) THEN ReadParams(arg4, afterArg3, FALSE)
        ELSE afterArg3

\* arg3 and arg4 as the caller sees them after the call.
ResolveArgsAfter(arg3, arg4) ==
    IF isArg3IsParamsObj(arg3, arg4) THEN <<ParamsAfter(arg3), arg4>>
    ELSE IF ReadsArg4(arg4) THEN <<arg3, ParamsAfter(arg4)>>
    ELSE <<arg3, arg4>>

\* Mutant: the prefix segment is written whether or not there is a body.
LogPrefix_AlwaysSegment(level, prefixBody) ==
    "[" \o level \o " | " \o prefixBody \o "] "

\* `[${level}${this.#prefixBody ? ` | ${this.#prefixBody}` : ''}] `
LogPrefix(level, prefixBody) ==
    "[" \o level \o (IF prefixBody # "" THEN " | " \o prefixBody ELSE "") \o "] "

\* A property read on stringifyAdditional when it is not the boolean true.
PropOf(v, key) == IF v.t = "object" THEN GetProp(v, key) ELSE Undef

\* Mutant: with `true` the value is serialized without indentation.
AdditionalText_NoIndent(p) ==
    IF Truthy(p.stringifyAdditional)
    THEN (IF p.stringifyAdditional = Bool(TRUE)
          THEN JSONstringify(p.additional, Null, Undef)
          ELSE JSONstringify(p.additional,
                             PropOf(p.stringifyAdditional, "replacer"),
                             PropOf(p.stringifyAdditional, "space")))
    ELSE p.additional

\* The second argument of the additional-data console.log.
AdditionalText(p) ==
    IF Truthy(p.stringifyAdditional)
    THEN (IF p.stringifyAdditional = Bool(TRUE)
          THEN JSONstringify(p.additional, Null, Num(2))
          ELSE JSONstringify(p.additional,
                             PropOf(p.stringifyAdditional, "replacer"),
                             PropOf(p.stringifyAdditional, "space")))
    ELSE p.additional

\* Mutant: alwaysLogAdditional is not looked at.
LogAdditional_IgnoresAlways(p) == p.additional # Undef

\* const logAdditional = alwaysLogAdditional || additional !== undefined
LogAdditional(p) == Truthy(p.alwaysLogAdditional) \/ p.additional # Undef

\* The text log composes inside `if (alertMsg && 'alert' in globalThis)`.
AlertResult(msgWithPrefix, p) ==
    LET parts == <<msgWithPrefix>>
                 \o (IF LogAdditional(p) THEN <<"(see additional data in the console)">> ELSE <<>>)
                 \o (IF Truthy(p.throwErr) THEN <<"(see an error messaage in the console)">> ELSE <<>>)
    IN  IF Len(parts) = 1 THEN parts[1]
        ELSE parts[1] \o "\n\n" \o JoinStr(Tail(parts), "\n")

ConsoleLog(args) == [k |-> "console", args |-> args]

\* Mutant: the modal step does not ask whether the host has `alert` and
\* reaches for it whenever alertMsg is set.
AlertEvents_NoHostCheck(msgWithPrefix, p, hasAlert) ==
    IF Truthy(p.alertMsg)
    THEN <<[k |-> "alert", body |-> AlertResult(msgWithPrefix, p)]>>
    ELSE <<>>

\* What the modal step of log does on the host: the text is composed and
\* dropped, index.ts holds no call of alert.
AlertEvents(msgWithPrefix, p, hasAlert) ==
    IF Truthy(p.alertMsg) /\ hasAlert
    THEN (LET result == AlertResult(msgWithPrefix, p) IN <<>>)
    ELSE <<>>

Returned == [k |-> "return"]
ThrewNew(message) == [k |-> "throwNew", message |-> message]
ThrewSame(id) == [k |-> "throwSame", id |-> id]
ThrewTypeError == [k |-> "throwTypeError"]
\* A TypeError raised while the arguments were being resolved.
ThrewInResolve == [k |-> "throwInResolve"]

\* Mutant: the primary message is written whatever throwErr is.
logMsg_Always(throwErr) == TRUE

\* const logMsg = throwErr !== true
logMsg(throwErr) == throwErr # Bool(TRUE)

\* Mutant: the primary message is written twice.
PrimaryEvents_Twice(msgWithPrefix, throwErr) ==
    IF logMsg(throwErr)
    THEN <<ConsoleLog(<<Str(msgWithPrefix)>>), ConsoleLog(<<Str(msgWithPrefix)>>)>>
    ELSE <<>>

\* The primary console.log of log.
PrimaryEvents(msgWithPrefix, throwErr) ==
    IF logMsg(throwErr) THEN <<ConsoleLog(<<Str(msgWithPrefix)>>)>> ELSE <<>>

\* The additional-data console.log of log, once the value has been serialized.
AdditionalEvents(prefix, p, text) ==
    IF LogAdditional(p)
    THEN <<ConsoleLog(<<Str(prefix \o "additional data:\n"), text>>)>>
    ELSE <<>>

\* Mutant: only true, a string and an Error make log throw.
ThrowStep_OnlyKnownKinds(prefix, msgWithPrefix, throwErr, errBefore) ==
    IF throwErr = Bool(TRUE)
    THEN [outcome |-> ThrewNew(msgWithPrefix), errMessage |-> errBefore]
    ELSE IF throwErr.t = "string" /\ throwErr.s # ""
    THEN [outcome |-> ThrewNew(prefix \o throwErr.s), errMessage |-> errBefore]
    ELSE IF throwErr.t = "error"
    THEN [outcome |-> ThrewSame(throwErr.id),
          errMessage |-> [errBefore EXCEPT ![throwErr.id] = prefix \o @]]
    ELSE [outcome |-> Returned, errMessage |-> errBefore]

\* Mutant: a string throwErr is not used as the text of the error.
ThrowStep_StringAsTrue(prefix, msgWithPrefix, throwErr, errBefore) ==
    IF ~Truthy(throwErr)
    THEN [outcome |-> Returned, errMessage |-> errBefore]
    ELSE IF throwErr.t = "error"
    THEN [outcome |-> ThrewSame(throwErr.id),
          errMessage |-> [errBefore EXCEPT ![throwErr.id] = prefix \o @]]
    ELSE [outcome |-> ThrewNew(msgWithPrefix), errMessage |-> errBefore]

\* Mutant: the given Error is thrown with its message left as it was.
ThrowStep_ErrorUnprefixed(prefix, msgWithPrefix, throwErr, errBefore) ==
    IF ~Truthy(throwErr)
    THEN [outcome |-> Returned, errMessage |-> errBefore]
    ELSE IF throwErr.t = "string"
    THEN [outcome |-> ThrewNew(prefix \o throwErr.s), errMessage |-> errBefore]
    ELSE IF throwErr.t = "error"
    THEN [outcome |-> ThrewSame(throwErr.id), errMessage |-> errBefore]
    ELSE [outcome |-> ThrewNew(msgWithPrefix), errMessage |-> errBefore]

\* Mutant: the given Error is thrown with the prefix before the text it was
\* made with, whatever its message had become.
ThrowStep_ErrorPrefixesOriginal(prefix, msgWithPrefix, throwErr, errBefore) ==
    IF ~Truthy(throwErr)
    THEN [outcome |-> Returned, errMessage |-> errBefore]
    ELSE IF throwErr.t = "string"
    THEN [outcome |-> ThrewNew(prefix \o throwErr.s), errMessage |-> errBefore]
    ELSE IF throwErr.t = "error"
    THEN [outcome |-> ThrewSame(throwErr.id),
          errMessage |-> [errBefore EXCEPT ![throwErr.id] = prefix \o "this is an error"]]
    ELSE [outcome |-> ThrewNew(msgWithPrefix), errMessage |-> errBefore]

\* Mutant: the test is `throwErr !== false`, so an undefined throwErr throws.
ThrowStep_UnlessFalse(prefix, msgWithPrefix, throwErr, errBefore) ==
    IF throwErr = Bool(FALSE)
    THEN [outcome |-> Returned, errMessage |-> errBefore]
    ELSE IF throwErr.t = "string"
    THEN [outcome |-> ThrewNew(prefix \o throwErr.s), errMessage |-> errBefore]
    ELSE IF throwErr.t = "error"
    THEN [outcome |-> ThrewSame(throwErr.id),
          errMessage |-> [errBefore EXCEPT ![throwErr.id] = prefix \o @]]
    ELSE [outcome |-> ThrewNew(msgWithPrefix), errMessage |-> errBefore]

\* `if (throwErr) { ... }`, the last step of log: [outcome, errMessage].
ThrowStep(prefix, msgWithPrefix, throwErr, errBefore) ==
    IF ~Truthy(throwErr)
    THEN [outcome |-> Returned, errMessage |-> errBefore]
    ELSE IF throwErr.t = "string"
    THEN [outcome |-> ThrewNew(prefix \o throwErr.s), errMessage |-> errBefore]
    ELSE IF throwErr.t = "error"
    THEN [outcome |-> ThrewSame(throwErr.id),
          errMessage |-> [errBefore EXCEPT ![throwErr.id] = prefix \o @]]
    ELSE [outcome |-> ThrewNew(msgWithPrefix), errMessage |-> errBefore]

\* Mutant: the throw step runs right after the primary message, before the
\* additional-data record and the modal step.
LogBody_ThrowsBeforeAdditional(prefixBody, level, msg, p, hasAlert, errBefore) ==
    LET prefix == LogPrefix(level, prefixBody)
        msgWithPrefix == prefix \o JsToString(msg)
        primary == PrimaryEvents(msgWithPrefix, p.throwErr)
        text == AdditionalText(p)
        last == ThrowStep(prefix, msgWithPrefix, p.throwErr, errBefore)
    IN  IF last.outcome # Returned
        THEN [events |-> primary, outcome |-> last.outcome, errMessage |-> last.errMessage]
        ELSE IF LogAdditional(p) /\ text = JsonThrows
        THEN [events |-> primary, outcome |-> ThrewTypeError, errMessage |-> errBefore]
        ELSE [events |-> primary \o AdditionalEvents(prefix, p, text)
                                \o AlertEvents(msgWithPrefix, p, hasAlert),
              outcome |-> last.outcome,
              errMessage |-> last.errMessage]

\* Mutant: a failure of JSON.stringify is caught, the additional-data record
\* is left out and log goes on to its last steps.
LogBody_CatchesJsonError(prefixBody, level, msg, p, hasAlert, errBefore) ==
    LET prefix == LogPrefix(level, prefixBody)
        msgWithPrefix == prefix \o JsToString(msg)
        primary == PrimaryEvents(msgWithPrefix, p.throwErr)
        text == AdditionalText(p)
        last == ThrowStep(prefix, msgWithPrefix, p.throwErr, errBefore)
    IN  [events |-> primary
                    \o (IF LogAdditional(p) /\ text = JsonThrows THEN <<>>
                        ELSE AdditionalEvents(prefix, p, text))
                    \o AlertEvents(msgWithPrefix, p, hasAlert),
         outcome |-> last.outcome,
         errMessage |-> last.errMessage]

\* The "main body" of log: [events, outcome, errMessage] of one call.
LogBody(prefixBody, level, msg, p, hasAlert, errBefore) ==
    LET prefix == LogPrefix(level, prefixBody)
        msgWithPrefix == prefix \o JsToString(msg)
        primary == PrimaryEvents(msgWithPrefix, p.throwErr)
        text == AdditionalText(p)
    IN  IF LogAdditional(p) /\ text = JsonThrows
        THEN [events |-> primary, outcome |-> ThrewTypeError, errMessage |-> errBefore]
        ELSE LET last == ThrowStep(prefix, msgWithPrefix, p.throwErr, errBefore)
             IN  [events |-> primary \o AdditionalEvents(prefix, p, text)
                                \o AlertEvents(msgWithPrefix, p, hasAlert),
                  outcome |-> last.outcome,
                  errMessage |-> last.errMessage]

-----------------------------------------------------------------------------
(* The calls the model makes *)

Msgs == {Str("hello world")}
ErrIds == {"e1"}
ErrText == "this is an error"

\* The prefixes the logger of a run is constructed with.
CtorPrefixes == {<<>>, <<"root">>, <<"root", "body">>}

\* Values a caller passes as additional data that are not plain objects.
NonRecords == {Null, Num(123), Str("foo and bar"), Arr(<<Num(1)>>), Fn("f")}

FooAndBar == Obj(<<"foo">>, ("foo" :> Str("and bar")))

\* What a caller may put under each key of arg3; "hello" is a key no option has.
Arg3Keys == paramNames \o <<"hello">>
Arg3Cand ==
    ("additional" :> {Undef, Num(123), FooAndBar})
    @@ ("alwaysLogAdditional" :> {Bool(TRUE)})
    @@ ("stringifyAdditional" :> {Bool(TRUE), EmptyObj, Obj(<<"space">>, ("space" :> Num(4)))})
    @@ ("throwErr" :> {Bool(FALSE), Undef, Bool(TRUE), Str("boom"), Err("e1")})
    @@ ("alertMsg" :> {Bool(TRUE)})
    @@ ("hello" :> {Str("world")})

\* What a caller may put under each key of arg4.
Arg4Keys == paramNames
Arg4Cand ==
    ("additional" :> {Num(456)})
    @@ ("alwaysLogAdditional" :> {Bool(TRUE)})
    @@ ("stringifyAdditional" :> {Bool(TRUE), EmptyObj, Obj(<<"space">>, ("space" :> Num(4)))})
    @@ ("throwErr" :> {Bool(FALSE), Undef, Bool(TRUE), Str("boom"), Err("e1")})
    @@ ("alertMsg" :> {Bool(TRUE)})

\* The plain objects with at most n own keys, taken in order from keys.
RECURSIVE Records(_, _, _)
Records(keys, n, cand) ==
    IF Len(keys) = 0 \/ n = 0 THEN {EmptyObj}
    ELSE LET k == keys[1]
         IN  Records(Tail(keys), n, cand)
             \cup {Obj(<<k>> \o b.keys, (k :> v) @@ b.f) :
                      v \in cand[k], b \in Records(Tail(keys), n - 1, cand)}

NKeys(v) == IF v.t = "object" THEN Len(v.keys) ELSE 0

Arg3Vals == {Undef, FooAndBar} \cup NonRecords \cup Records(Arg3Keys, MaxKeys, Arg3Cand)
Arg4Vals == {Undef, Null} \cup Records(Arg4Keys, MaxKeys, Arg4Cand)

CallArgs == {a \in Arg3Vals \X Arg4Vals : NKeys(a[1]) + NKeys(a[2]) <= MaxKeys}

-----------------------------------------------------------------------------
(* The state machine *)

\* A call of log a caller is about to make; an Error it passes is new.
LogCalls ==
    {[op |-> "log", self |-> 1, level |-> level, msg |-> msg,
      arg3 |-> a[1], arg4 |-> a[2], errBefore |-> [e \in ErrIds |-> ErrText]] :
        level \in LogLevels, msg \in Msgs, a \in CallArgs}

\* A logger has been constructed and a caller has built the arguments of a call.
Init ==
    /\ \E prefix \in CtorPrefixes : loggers = (1 :> NewLogger(prefix))
    /\ hostHasAlert \in BOOLEAN
    /\ call \in LogCalls
    /\ pc = "call"
    /\ errMessage = call.errBefore
    /\ events = <<>>
    /\ outcome = Returned
    /\ argsAfter = <<call.arg3, call.arg4>>
    /\ resolved = [params |-> DefaultParams, isArg3IsParamsObj |-> FALSE]

\* Mutant: a call that throws leaves its logger without prefixes.
log_ThrowClearsPrefixes(self, level, msg, arg3, arg4, errBefore) ==
    LET p == ResolveParams(arg3, arg4)
        r == IF ResolveRaises(arg3, arg4)
             THEN [events |-> <<>>, outcome |-> ThrewInResolve, errMessage |-> errBefore]
             ELSE LogBody(loggers[self].prefixBody, level, msg, p, hostHasAlert, errBefore)
    IN  /\ resolved' = [params |-> p, isArg3IsParamsObj |-> isArg3IsParamsObj(arg3, arg4)]
        /\ events' = r.events
        /\ outcome' = r.outcome
        /\ errMessage' = r.errMessage
        /\ argsAfter' = ResolveArgsAfter(arg3, arg4)
        /\ loggers' = IF r.outcome = Returned THEN loggers
                      ELSE [loggers EXCEPT ![self] = NewLogger(<<>>)]
        /\ UNCHANGED hostHasAlert

\* logger.log(level, msg, arg3, arg4), the Error instances of the call being
\* the ones of errBefore.
log(self, level, msg, arg3, arg4, errBefore) ==
    LET p == ResolveParams(arg3, arg4)
        r == IF ResolveRaises(arg3, arg4)
             THEN [events |-> <<>>, outcome |-> ThrewInResolve, errMessage |-> errBefore]
             ELSE LogBody(loggers[self].prefixBody, level, msg, p, hostHasAlert, errBefore)
    IN  /\ resolved' = [params |-> p, isArg3IsParamsObj |-> isArg3IsParamsObj(arg3, arg4)]
        /\ events' = r.events
        /\ outcome' = r.outcome
        /\ errMessage' = r.errMessage
        /\ argsAfter' = ResolveArgsAfter(arg3, arg4)
        /\ UNCHANGED <<loggers, hostHasAlert>>

\* The pending call runs to its end.
Log ==
    /\ pc = "call"
    /\ call.op = "log"
    /\ log(call.self, call.level, call.msg, call.arg3, call.arg4, call.errBefore)
    /\ pc' = "done"
    /\ UNCHANGED call

Next == Log

Spec == Init /\ [][Next]_vars

-----------------------------------------------------------------------------
(* Several loggers: appendPrefix, clone, cloneAndAppendPrefix, then log *)

\* The rest arguments of appendPrefix and cloneAndAppendPrefix: none, one
\* prefix, several prefixes.
AppendArgs == {<<>>, <<"foo">>, <<"foo", "bar">>}

\* What a method leaves behind: the loggers, and the logger it returns.
\* Every instance owns the array of its #prefixParts field, so the array is
\* part of the logger.

\* Mutant: clone hands back the logger it was called on.
clone_ReturnsThis(ls, self) == [loggers |-> ls, result |-> self]

\* clone: `return new Logger(...this.#prefixParts)`
clone(ls, self) ==
    LET id == Cardinality(DOMAIN ls) + 1
    IN  [loggers |-> ls @@ (id :> NewLogger(ls[self].prefixParts)), result |-> id]

\* Mutant: the prefixes are appended to the logger itself, without the clone.
cloneAndAppendPrefix_OnThis(ls, self, prefix) ==
    [loggers |-> [ls EXCEPT ![self] = appendPrefix(@, prefix)], result |-> self]

\* cloneAndAppendPrefix: `return this.clone().appendPrefix(...prefix)`
cloneAndAppendPrefix(ls, self, prefix) ==
    LET c == clone(ls, self)
    IN  [loggers |-> [c.loggers EXCEPT ![c.result] = appendPrefix(@, prefix)],
         result |-> c.result]

\* The method wrote nothing and returned.
NoOutput ==
    /\ events' = <<>>
    /\ outcome' = Returned
    /\ UNCHANGED <<hostHasAlert, errMessage, argsAfter, resolved, pc>>

\* logger.appendPrefix(...prefix), which returns the logger itself.
AppendPrefix(self, prefix) ==
    /\ Len(loggers[self].prefixParts) + Len(prefix) <= MaxPrefixLen
    /\ loggers' = [loggers EXCEPT ![self] = appendPrefix(@, prefix)]
    /\ call' = [op |-> "appendPrefix", self |-> self, prefix |-> prefix, result |-> self]
    /\ NoOutput

\* logger.clone()
Clone(self) ==
    /\ Cardinality(DOMAIN loggers) < MaxLoggers
    /\ loggers' = clone(loggers, self).loggers
    /\ call' = [op |-> "clone", self |-> self, prefix |-> <<>>,
                result |-> clone(loggers, self).result]
    /\ NoOutput

\* logger.cloneAndAppendPrefix(...prefix)
CloneAndAppendPrefix(self, prefix) ==
    /\ Cardinality(DOMAIN loggers) < MaxLoggers
    /\ Len(loggers[self].prefixParts) + Len(prefix) <= MaxPrefixLen
    /\ loggers' = cloneAndAppendPrefix(loggers, self, prefix).loggers
    /\ call' = [op |-> "cloneAndAppendPrefix", self |-> self, prefix |-> prefix,
                result |-> cloneAndAppendPrefix(loggers, self, prefix).result]
    /\ NoOutput

\* logger.log(level, msg, additional)
LogOn(self, level, msg, arg3) ==
    /\ log(self, level, msg, arg3, Undef, errMessage)
    /\ call' = [op |-> "log", self |-> self, level |-> level, msg |-> msg,
                arg3 |-> arg3, arg4 |-> Undef, errBefore |-> errMessage]
    /\ UNCHANGED pc

InitPrefix ==
    /\ \E prefix \in CtorPrefixes : loggers = (1 :> NewLogger(prefix))
    /\ hostHasAlert = FALSE
    /\ call = [op |-> "new", self |-> 1, prefix |-> loggers[1].prefixParts, result |-> 1]
    /\ pc = "done"
    /\ errMessage = [e \in ErrIds |-> ErrText]
    /\ events = <<>>
    /\ outcome = Returned
    /\ argsAfter = <<Undef, Undef>>
    /\ resolved = [params |-> DefaultParams, isArg3IsParamsObj |-> FALSE]

NextPrefix ==
    \E self \in DOMAIN loggers :
        \/ \E prefix \in AppendArgs : AppendPrefix(self, prefix)
        \/ Clone(self)
        \/ \E prefix \in AppendArgs : CloneAndAppendPrefix(self, prefix)
        \/ \E level \in LogLevels, msg \in Msgs : LogOn(self, level, msg, Num(123))

SpecPrefix == InitPrefix /\ [][NextPrefix]_vars

-----------------------------------------------------------------------------
(* One call of log with a message of any type *)

BeepBoop == Obj(<<"beep">>, ("beep" :> Str("boop")))

\* The values a caller passes as the message.
AnyMsgs ==
    {Str("hello world"), Str(""), Num(123), Bool(TRUE), Undef, Null,
     Arr(<<Num(1), Str("hello"), BeepBoop>>), Fn("helloWorld"), BeepBoop}

MsgCalls ==
    {[op |-> "log", self |-> 1, level |-> level, msg |-> msg,
      arg3 |-> arg3, arg4 |-> Undef, errBefore |-> [e \in ErrIds |-> ErrText]] :
        level \in LogLevels, msg \in AnyMsgs, arg3 \in {Undef, Num(123)}}

InitMsg ==
    /\ \E prefix \in CtorPrefixes : loggers = (1 :> NewLogger(prefix))
    /\ hostHasAlert \in BOOLEAN
    /\ call \in MsgCalls
    /\ pc = "call"
    /\ errMessage = call.errBefore
    /\ events = <<>>
    /\ outcome = Returned
    /\ argsAfter = <<call.arg3, call.arg4>>
    /\ resolved = [params |-> DefaultParams, isArg3IsParamsObj |-> FALSE]

SpecMsg == InitMsg /\ [][Next]_vars

-----------------------------------------------------------------------------
(* One call of log that serializes its additional value *)

HelloWorld == Obj(<<"hello", "foo">>, ("hello" :> Str("world")) @@ ("foo" :> Str("bar")))

\* An object that holds a reference to itself.
Circular == Obj(<<"self">>, ("self" :> Cycle))

\* The additional values: two that serialize, two that JSON.stringify rejects.
StringifyAdditionals == {HelloWorld, Num(123), BigIntV(10), Circular}

\* The configuration records: space and replacer, each given or not.
StringifyCand ==
    ("space" :> {Undef, Null, Num(0), Str(""), Num(4), Str("--")})
    @@ ("replacer" :> {Arr(<<Str("hello")>>), Fn("helloToBar")})

StringifyConfigs == {Bool(TRUE)} \cup Records(<<"space", "replacer">>, 2, StringifyCand)

\* The other options a caller sets next to stringifyAdditional: one or none.
OtherCand ==
    ("throwErr" :> {Bool(TRUE), Str("boom"), Err("e1")})
    @@ ("alertMsg" :> {Bool(TRUE)})

OtherOptions == Records(<<"throwErr", "alertMsg">>, 1, OtherCand)

\* Both shapes of the call: everything in the bag at arg3, or the additional
\* value at arg3 and the options at arg4.
StringifyArgs ==
    {<<SetProp(SetProp(o, "additional", a), "stringifyAdditional", c), Undef>> :
        a \in StringifyAdditionals, c \in StringifyConfigs, o \in OtherOptions}
    \cup
    {<<a, SetProp(o, "stringifyAdditional", c)>> :
        a \in StringifyAdditionals, c \in StringifyConfigs, o \in OtherOptions}

StringifyCalls ==
    {[op |-> "log", self |-> 1, level |-> level, msg |-> msg,
      arg3 |-> a[1], arg4 |-> a[2], errBefore |-> [e \in ErrIds |-> ErrText]] :
        level \in LogLevels, msg \in Msgs, a \in StringifyArgs}

InitStringify ==
    /\ \E prefix \in CtorPrefixes : loggers = (1 :> NewLogger(prefix))
    /\ hostHasAlert \in BOOLEAN
    /\ call \in StringifyCalls
    /\ pc = "call"
    /\ errMessage = call.errBefore
    /\ events = <<>>
    /\ outcome = Returned
    /\ argsAfter = <<call.arg3, call.arg4>>
    /\ resolved = [params |-> DefaultParams, isArg3IsParamsObj |-> FALSE]

SpecStringify == InitStringify /\ [][Next]_vars

-----------------------------------------------------------------------------
(* One call of log with arguments of every shape *)

\* What a caller may pass at arg3 and at arg4: nothing, null, primitives
\* (falsy and truthy), arrays, a function, the empty record, records with
\* names of options, with other names, and with both.
AnyShapes ==
    {Undef, Null, Bool(FALSE), Bool(TRUE), Num(0), Num(123), Str(""), Str("foo and bar"),
     BigIntV(10), Arr(<<>>), Arr(<<Num(1)>>), Fn("f"), EmptyObj, FooAndBar,
     Obj(<<"throwErr">>, ("throwErr" :> Str("boom"))),
     Obj(<<"additional", "alwaysLogAdditional">>,
         ("additional" :> Num(456)) @@ ("alwaysLogAdditional" :> Bool(TRUE))),
     Obj(<<"additional", "hello">>, ("additional" :> Num(456)) @@ ("hello" :> Str("world")))}

ShapeCalls ==
    {[op |-> "log", self |-> 1, level |-> level, msg |-> msg,
      arg3 |-> arg3, arg4 |-> arg4, errBefore |-> [e \in ErrIds |-> ErrText]] :
        level \in LogLevels, msg \in Msgs, arg3 \in AnyShapes, arg4 \in AnyShapes}

InitShapes ==
    /\ \E prefix \in CtorPrefixes : loggers = (1 :> NewLogger(prefix))
    /\ hostHasAlert \in BOOLEAN
    /\ call \in ShapeCalls
    /\ pc = "call"
    /\ errMessage = call.errBefore
    /\ events = <<>>
    /\ outcome = Returned
    /\ argsAfter = <<call.arg3, call.arg4>>
    /\ resolved = [params |-> DefaultParams, isArg3IsParamsObj |-> FALSE]

SpecShapes == InitShapes /\ [][Next]_vars

-----------------------------------------------------------------------------
(* One call of log with a throwErr of any type *)

\* The values a caller passes as throwErr: the falsy ones, then true, a
\* text, an Error, and truthy values of other types.
ThrowErrs ==
    {Bool(FALSE), Undef, Null, Num(0), Str(""),
     Bool(TRUE), Str("boom"), Err("e1"),
     Num(1), EmptyObj, Arr(<<>>), Fn("f")}

ThrowArgs ==
    {<<Obj(<<"throwErr">>, ("throwErr" :> t)), Undef>> : t \in ThrowErrs}
    \cup {<<Obj(<<"additional", "throwErr">>, ("additional" :> Num(123)) @@ ("throwErr" :> t)), Undef>> :
             t \in ThrowErrs}
    \cup {<<Str("foo and bar"), Obj(<<"throwErr">>, ("throwErr" :> t))>> : t \in ThrowErrs}

ThrowCalls ==
    {[op |-> "log", self |-> 1, level |-> level, msg |-> msg,
      arg3 |-> a[1], arg4 |-> a[2], errBefore |-> [e \in ErrIds |-> ErrText]] :
        level \in LogLevels, msg \in Msgs, a \in ThrowArgs}

InitThrow ==
    /\ \E prefix \in CtorPrefixes : loggers = (1 :> NewLogger(prefix))
    /\ hostHasAlert \in BOOLEAN
    /\ call \in ThrowCalls
    /\ pc = "call"
    /\ errMessage = call.errBefore
    /\ events = <<>>
    /\ outcome = Returned
    /\ argsAfter = <<call.arg3, call.arg4>>
    /\ resolved = [params |-> DefaultParams, isArg3IsParamsObj |-> FALSE]

SpecThrow == InitThrow /\ [][Next]_vars

-----------------------------------------------------------------------------
(* One call of an alias of log *)

\* logDebug(msg, arg2, arg3): `this.log('debug', msg, arg2, arg3)`
logDebug(self, msg, arg2, arg3, errBefore) == log(self, "debug", msg, arg2, arg3, errBefore)

\* logInfo(msg, arg2, arg3): `this.log('info', msg, arg2, arg3)`
logInfo(self, msg, arg2, arg3, errBefore) == log(self, "info", msg, arg2, arg3, errBefore)

\* Mutant: the alias passes the message and arg2 on and leaves arg3 behind.
logWarn_DropsArg3(self, msg, arg2, arg3, errBefore) ==
    log(self, "warn", msg, arg2, Undef, errBefore)

\* logWarn(msg, arg2, arg3): `this.log('warn', msg, arg2, arg3)`
logWarn(self, msg, arg2, arg3, errBefore) == log(self, "warn", msg, arg2, arg3, errBefore)

\* logError(msg, arg2, arg3): `this.log('error', msg, arg2, arg3)`
logError(self, msg, arg2, arg3, errBefore) == log(self, "error", msg, arg2, arg3, errBefore)

Aliases == {"logDebug", "logInfo", "logWarn", "logError"}

\* The arguments after the message, which are arg3 and arg4 of log.
AliasArgs == {a \in CallArgs : NKeys(a[1]) + NKeys(a[2]) < MaxKeys}

\* A call of an alias a caller is about to make; arg3 and arg4 name the
\* arguments by their place in log, one further than in the alias.
AliasCalls ==
    {[op |-> op, self |-> 1, msg |-> msg,
      arg3 |-> a[1], arg4 |-> a[2], errBefore |-> [e \in ErrIds |-> ErrText]] :
        op \in Aliases, msg \in Msgs, a \in AliasArgs}

InitAlias ==
    /\ \E prefix \in CtorPrefixes : loggers = (1 :> NewLogger(prefix))
    /\ hostHasAlert \in BOOLEAN
    /\ call \in AliasCalls
    /\ pc = "call"
    /\ errMessage = call.errBefore
    /\ events = <<>>
    /\ outcome = Returned
    /\ argsAfter = <<call.arg3, call.arg4>>
    /\ resolved = [params |-> DefaultParams, isArg3IsParamsObj |-> FALSE]

LogDebug ==
    /\ pc = "call"
    /\ call.op = "logDebug"
    /\ logDebug(call.self, call.msg, call.arg3, call.arg4, call.errBefore)
    /\ pc' = "done"
    /\ UNCHANGED call

LogInfo ==
    /\ pc = "call"
    /\ call.op = "logInfo"
    /\ logInfo(call.self, call.msg, call.arg3, call.arg4, call.errBefore)
    /\ pc' = "done"
    /\ UNCHANGED call

LogWarn ==
    /\ pc = "call"
    /\ call.op = "logWarn"
    /\ logWarn(call.self, call.msg, call.arg3, call.arg4, call.errBefore)
    /\ pc' = "done"
    /\ UNCHANGED call

LogError ==
    /\ pc = "call"
    /\ call.op = "logError"
    /\ logError(call.self, call.msg, call.arg3, call.arg4, call.errBefore)
    /\ pc' = "done"
    /\ UNCHANGED call

NextAlias == LogDebug \/ LogInfo \/ LogWarn \/ LogError

SpecAlias == InitAlias /\ [][NextAlias]_vars

-----------------------------------------------------------------------------
(* A method called on its instance, or taken off it and called on its own *)

\* Mutant: the methods are ordinary methods, whose `this` is the receiver of
\* the call; a detached call has none.
MethodThis_Receiver(owner, detached) ==
    IF detached THEN [bound |-> FALSE, id |-> owner] ELSE [bound |-> TRUE, id |-> owner]

\* The `this` of a method: every method is an arrow function in a field of
\* the instance, so `this` is the instance that holds the field, however the
\* function is called.
MethodThis(owner, detached) == [bound |-> TRUE, id |-> owner]

\* The methods a caller takes, with the level each one logs at.
Methods ==
    {[op |-> "log", level |-> level] : level \in LogLevels}
    \cup {[op |-> "logInfo", level |-> "info"], [op |-> "logError", level |-> "error"]}

\* logger.method(...) and `const { method } = logger; method(...)`; self is
\* the instance the method belongs to.
MethodCalls ==
    {[op |-> m.op, self |-> self, detached |-> detached, level |-> m.level, msg |-> msg,
      arg3 |-> arg3, arg4 |-> Undef, errBefore |-> [e \in ErrIds |-> ErrText]] :
        m \in Methods, self \in {1, 2}, detached \in BOOLEAN, msg \in Msgs,
        arg3 \in {Undef, Num(123), Obj(<<"throwErr">>, ("throwErr" :> Str("boom")))}}

\* Two loggers have been constructed, with different prefixes.
InitMethod ==
    /\ \E prefix \in CtorPrefixes :
          loggers = (1 :> NewLogger(prefix)) @@ (2 :> NewLogger(<<"other">>))
    /\ hostHasAlert \in BOOLEAN
    /\ call \in MethodCalls
    /\ pc = "call"
    /\ errMessage = call.errBefore
    /\ events = <<>>
    /\ outcome = Returned
    /\ argsAfter = <<call.arg3, call.arg4>>
    /\ resolved = [params |-> DefaultParams, isArg3IsParamsObj |-> FALSE]

\* Reading this.#prefixBody with no `this` is a TypeError.
NoThis ==
    /\ events' = <<>>
    /\ outcome' = ThrewTypeError
    /\ UNCHANGED <<loggers, hostHasAlert, errMessage, argsAfter, resolved>>

CallLog ==
    /\ pc = "call"
    /\ call.op = "log"
    /\ LET this == MethodThis(call.self, call.detached)
       IN  IF this.bound
           THEN log(this.id, call.level, call.msg, call.arg3, call.arg4, call.errBefore)
           ELSE NoThis
    /\ pc' = "done"
    /\ UNCHANGED call

CallLogInfo ==
    /\ pc = "call"
    /\ call.op = "logInfo"
    /\ LET this == MethodThis(call.self, call.detached)
       IN  IF this.bound
           THEN logInfo(this.id, call.msg, call.arg3, call.arg4, call.errBefore)
           ELSE NoThis
    /\ pc' = "done"
    /\ UNCHANGED call

CallLogError ==
    /\ pc = "call"
    /\ call.op = "logError"
    /\ LET this == MethodThis(call.self, call.detached)
       IN  IF this.bound
           THEN logError(this.id, call.msg, call.arg3, call.arg4, call.errBefore)
           ELSE NoThis
    /\ pc' = "done"
    /\ UNCHANGED call

NextMethod == CallLog \/ CallLogInfo \/ CallLogError

SpecMethod == InitMethod /\ [][NextMethod]_vars

-----------------------------------------------------------------------------
(* A run of calls on one logger: log and an alias, returning and throwing,
   between calls of appendPrefix *)

\* The arguments of the calls: none; throwErr true; additional data with a
\* throwErr text; a BigInt to be serialized.
RunArgs ==
    {<<Undef, Undef>>,
     <<Obj(<<"throwErr">>, ("throwErr" :> Bool(TRUE))), Undef>>,
     <<Str("foo and bar"), Obj(<<"throwErr">>, ("throwErr" :> Str("boom")))>>,
     <<BigIntV(10), Obj(<<"stringifyAdditional">>, ("stringifyAdditional" :> Bool(TRUE)))>>}

InitRun ==
    /\ \E prefix \in CtorPrefixes : loggers = (1 :> NewLogger(prefix))
    /\ hostHasAlert = FALSE
    /\ call = [op |-> "new", self |-> 1, prefix |-> loggers[1].prefixParts, result |-> 1]
    /\ pc = "done"
    /\ errMessage = [e \in ErrIds |-> ErrText]
    /\ events = <<>>
    /\ outcome = Returned
    /\ argsAfter = <<Undef, Undef>>
    /\ resolved = [params |-> DefaultParams, isArg3IsParamsObj |-> FALSE]

\* logger.log(level, msg, arg3, arg4)
RunLog(self, level, msg, a) ==
    /\ log(self, level, msg, a[1], a[2], errMessage)
    /\ call' = [op |-> "log", self |-> self, level |-> level, msg |-> msg,
                arg3 |-> a[1], arg4 |-> a[2], errBefore |-> errMessage]
    /\ UNCHANGED pc

\* logger.logWarn(msg, arg2, arg3)
RunLogWarn(self, msg, a) ==
    /\ logWarn(self, msg, a[1], a[2], errMessage)
    /\ call' = [op |-> "logWarn", self |-> self, level |-> "warn", msg |-> msg,
                arg3 |-> a[1], arg4 |-> a[2], errBefore |-> errMessage]
    /\ UNCHANGED pc

NextRun ==
    \E self \in DOMAIN loggers :
        \/ \E prefix \in AppendArgs : AppendPrefix(self, prefix)
        \/ \E level \in LogLevels, msg \in Msgs, a \in RunArgs : RunLog(self, level, msg, a)
        \/ \E msg \in Msgs, a \in RunArgs : RunLogWarn(self, msg, a)

SpecRun == InitRun /\ [][NextRun]_vars

-----------------------------------------------------------------------------
(* One Error instance passed as throwErr to call after call, on two loggers *)

\* How many calls of a run are passed the Error instance.
MaxRethrows == 2

\* The two ways of passing the instance: in the params at arg3, or in the
\* params at arg4 after additional data.
RethrowArgs ==
    {<<Obj(<<"throwErr">>, ("throwErr" :> Err("e1"))), Undef>>,
     <<Str("foo and bar"), Obj(<<"throwErr">>, ("throwErr" :> Err("e1")))>>}

\* call.passed lists the calls made so far, the first one first.
InitRethrow ==
    /\ \E prefix \in CtorPrefixes :
          loggers = (1 :> NewLogger(prefix)) @@ (2 :> NewLogger(<<"other">>))
    /\ hostHasAlert = FALSE
    /\ call = [op |-> "new", self |-> 1, passed |-> <<>>]
    /\ pc = "done"
    /\ errMessage = [e \in ErrIds |-> ErrText]
    /\ events = <<>>
    /\ outcome = Returned
    /\ argsAfter = <<Undef, Undef>>
    /\ resolved = [params |-> DefaultParams, isArg3IsParamsObj |-> FALSE]

\* logger.log(level, msg, arg3, arg4) with the instance as throwErr; the
\* caller catches what is thrown and goes on.
Rethrow(self, level, msg, a) ==
    /\ Len(call.passed) < MaxRethrows
    /\ log(self, level, msg, a[1], a[2], errMessage)
    /\ call' = [op |-> "log", self |-> self, level |-> level, msg |-> msg,
                arg3 |-> a[1], arg4 |-> a[2], errBefore |-> errMessage,
                passed |-> Append(call.passed, [self |-> self, level |-> level])]
    /\ UNCHANGED pc

NextRethrow ==
    \E self \in DOMAIN loggers, level \in LogLevels, msg \in Msgs, a \in RethrowArgs :
        Rethrow(self, level, msg, a)

SpecRethrow == InitRethrow /\ [][NextRethrow]_vars

-----------------------------------------------------------------------------
(* One call of doesObjectOnlyHaveSpecificProps *)

PropNames == {"a", "b", "c"}

RECURSIVE SeqsUpTo(_, _)
\* The sequences over S of length n at most.
SeqsUpTo(S, n) ==
    IF n = 0 THEN {<<>>}
    ELSE SeqsUpTo(S, n - 1)
         \cup {<<x>> \o q : x \in S, q \in {r \in SeqsUpTo(S, n - 1) : Len(r) = n - 1}}

\* The objects: every set of own keys, in the order of their names.
PropObjects ==
    {Obj(SelectSeq(<<"a", "b", "c">>, LAMBDA k : k \in ks), [k \in ks |-> Num(1)]) :
        ks \in SUBSET PropNames}

\* A call a caller is about to make; props may name a key more than once.
PropsCalls ==
    {[op |-> "doesObjectOnlyHaveSpecificProps", obj |-> obj, props |-> props,
      emptyObjectSatisfies |-> e, fullMatchRequired |-> f] :
        obj \in PropObjects, props \in SeqsUpTo(PropNames, MaxProps), e \in BOOLEAN, f \in BOOLEAN}

ReturnedValue(v) == [k |-> "return", value |-> v]

InitProps ==
    /\ loggers = (1 :> NewLogger(<<>>))
    /\ hostHasAlert = FALSE
    /\ call \in PropsCalls
    /\ pc = "call"
    /\ errMessage = [e \in ErrIds |-> ErrText]
    /\ events = <<>>
    /\ outcome = Returned
    /\ argsAfter = <<call.obj, Undef>>
    /\ resolved = [params |-> DefaultParams, isArg3IsParamsObj |-> FALSE]

\* The pending call returns its boolean.
CheckProps ==
    /\ pc = "call"
    /\ call.op = "doesObjectOnlyHaveSpecificProps"
    /\ outcome' = ReturnedValue(doesObjectOnlyHaveSpecificProps(
                        call.obj, call.props, call.emptyObjectSatisfies, call.fullMatchRequired))
    /\ pc' = "done"
    /\ UNCHANGED <<loggers, hostHasAlert, call, errMessage, events, argsAfter, resolved>>

NextProps == CheckProps

SpecProps == InitProps /\ [][NextProps]_vars

-----------------------------------------------------------------------------
(* Properties of a finished call *)

Done == pc = "done"

RecognizedKeys == {"additional", "alwaysLogAdditional", "stringifyAdditional", "throwErr", "alertMsg"}

IsRecord(v) == v.t = "object"

\* A record with at least one key, all of them names of options.
BagShaped(v) == IsRecord(v) /\ DOMAIN v.f # {} /\ DOMAIN v.f \subseteq RecognizedKeys

Has(v, key) == IsRecord(v) /\ key \in DOMAIN v.f
Field(v, key) == IF Has(v, key) THEN v.f[key] ELSE Undef

\* The resolved option is the one given under key, or an unset one.
OptionReadFrom(bag, key, r) == IF Has(bag, key) THEN r = bag.f[key] ELSE ~Truthy(r)

\* The resolved stringifyAdditional is the given one; a configuration record
\* keeps its replacer and has its space, or 2 where none was given.
StringifyReadFrom(bag, r) ==
    LET given == Field(bag, "stringifyAdditional")
    IN  IF IsRecord(given)
        THEN /\ IsRecord(r)
             /\ Field(r, "replacer") = Field(given, "replacer")
             /\ Field(r, "space") = (IF Field(given, "space") \in {Undef, Null}
                                     THEN Num(2) ELSE Field(given, "space"))
        ELSE OptionReadFrom(bag, "stringifyAdditional", r)

\* The four options other than `additional` are the ones bag supplies.
OptionsReadFrom(bag) ==
    /\ OptionReadFrom(bag, "alwaysLogAdditional", resolved.params.alwaysLogAdditional)
    /\ StringifyReadFrom(bag, resolved.params.stringifyAdditional)
    /\ OptionReadFrom(bag, "alertMsg", resolved.params.alertMsg)
    /\ OptionReadFrom(bag, "throwErr", resolved.params.throwErr)

\* arg3 was taken as the options bag: additional is its field, the rest is read from it.
Arg3IsOptionsBag ==
    /\ resolved.isArg3IsParamsObj
    /\ resolved.params.additional = Field(call.arg3, "additional")
    /\ OptionsReadFrom(call.arg3)

\* arg3 was taken as the additional value, whole; the options are those of arg4.
Arg3IsAdditional ==
    /\ ~resolved.isArg3IsParamsObj
    /\ resolved.params.additional = call.arg3
    /\ OptionsReadFrom(call.arg4)

\* C1 as stated: a record at arg3 whose keys are all option names is the
\* options bag, whatever arg4 is.
C1_BagShapedArg3IsBagWhateverArg4 ==
    Done /\ BagShaped(call.arg3) => Arg3IsOptionsBag

\* C1 amended: a record at arg3 with at least one key, all of them option
\* names, is the options bag when arg4 is not supplied; when arg4 is supplied
\* the same record is the additional value and arg4 supplies the options.
C1_BagShapedArg3IsBagWithoutArg4 ==
    Done /\ BagShaped(call.arg3) =>
        IF call.arg4 = Undef THEN Arg3IsOptionsBag ELSE Arg3IsAdditional

C1_Witness ==
    /\ Done
    /\ BagShaped(call.arg3)
    /\ call.arg4 = Undef
    /\ Has(call.arg3, "additional") /\ Has(call.arg3, "throwErr")
    /\ resolved.params.additional = Num(123)
    /\ resolved.params.throwErr = Str("boom")

\* C2: with arg3 defined, arg3 is the params object exactly when it is a
\* non-empty plain object, holds only names of params and arg4 is not given;
\* otherwise the whole of arg3 is the additional data and arg4 supplies the params.
C2_ParamsIffThreeConditions ==
    Done /\ call.arg3 # Undef =>
        /\ resolved.isArg3IsParamsObj <=> (BagShaped(call.arg3) /\ call.arg4 = Undef)
        /\ IF BagShaped(call.arg3) /\ call.arg4 = Undef
           THEN Arg3IsOptionsBag
           ELSE Arg3IsAdditional

C2_Witness ==
    /\ Done
    /\ BagShaped(call.arg3)
    /\ IsRecord(call.arg4) /\ Has(call.arg4, "throwErr")
    /\ resolved.params.additional = call.arg3
    /\ resolved.params.throwErr = Bool(TRUE)

\* The additional-data records of the call: console writes of two parts.
AdditionalRecords == {i \in DOMAIN events : events[i].k = "console" /\ Len(events[i].args) = 2}
\* The primary records of the call: console writes of one part.
PrimaryRecords == {i \in DOMAIN events : events[i].k = "console" /\ Len(events[i].args) = 1}

Threw == outcome # Returned

\* C3: a record at arg3 with a key that is no option name, or the empty
\* record, is never the options bag: the additional-data record carries the
\* whole of arg3 and no option is read from arg3, so its throwErr never throws.
C3_ForeignOrEmptyRecordIsAdditional ==
    Done /\ IsRecord(call.arg3) /\ ~BagShaped(call.arg3) =>
        /\ Arg3IsAdditional
        /\ Cardinality(AdditionalRecords) = 1
        /\ \A i \in AdditionalRecords :
              ~Truthy(Field(call.arg4, "stringifyAdditional")) => events[i].args[2] = call.arg3
        /\ Threw => Truthy(Field(call.arg4, "throwErr"))

C3_Witness ==
    /\ Done
    /\ IsRecord(call.arg3)
    /\ Has(call.arg3, "hello")
    /\ Field(call.arg3, "throwErr") = Bool(TRUE)
    /\ ~Threw
    /\ \E i \in AdditionalRecords : events[i].args[2] = call.arg3

\* C4: an arg3 that is defined and no plain record is the additional value,
\* and arg4, if present, is read as the options (without `additional`) over
\* the defaults.
C4_NonRecordArg3IsAdditional ==
    Done /\ call.arg3 # Undef /\ ~IsRecord(call.arg3) => Arg3IsAdditional

C4_Witness ==
    /\ Done
    /\ call.arg3 = Str("foo and bar")
    /\ Field(call.arg4, "throwErr") = Str("boom")
    /\ Has(call.arg4, "alwaysLogAdditional")
    /\ resolved.params.additional = Str("foo and bar")
    /\ outcome.k = "throwNew"

\* The header the call puts before its texts: the level, then the prefix
\* parts joined by " > " when there are any.
ExpectedHeader ==
    LET parts == loggers[call.self].prefixParts
    IN  IF parts = <<>> THEN "[" \o call.level \o "] "
        ELSE "[" \o call.level \o " | " \o JoinStr(parts, " > ") \o "] "

\* The prefixed primary message.
ExpectedPrimary == ExpectedHeader \o call.msg.s

\* The primary message is the first record written, and is written once.
PrimaryWritten == PrimaryRecords = {1} /\ events[1].args = <<Str(ExpectedPrimary)>>

\* The additional-data record applies to the call.
AdditionalApplies ==
    resolved.params.alwaysLogAdditional = Bool(TRUE) \/ resolved.params.additional # Undef

\* The additional-data record is written once, after the primary message,
\* when it applies, and not at all when it does not.
AdditionalWrittenIfApplies ==
    /\ AdditionalRecords = (IF AdditionalApplies THEN {Cardinality(PrimaryRecords) + 1} ELSE {})
    /\ \A i \in AdditionalRecords :
          events[i].args[1] = Str(ExpectedHeader \o "additional data:\n")

\* C5: the additional-data record is written exactly when alwaysLogAdditional
\* is true or the additional value is present; an undefined additional value
\* is written as undefined, from the options bag and from arg3 alike.
C5_AdditionalWrittenIffAlwaysOrPresent ==
    Done =>
        /\ AdditionalRecords # {} <=> AdditionalApplies
        /\ Cardinality(AdditionalRecords) <= 1
        /\ \A i \in AdditionalRecords :
              /\ resolved.params.additional = Undef => events[i].args[2] = Undef
              /\ ~Truthy(resolved.params.stringifyAdditional) =>
                    events[i].args[2] = resolved.params.additional

C5_Witness ==
    /\ Done
    /\ Has(call.arg3, "additional") /\ call.arg3.f["additional"] = Undef
    /\ Field(call.arg3, "alwaysLogAdditional") = Bool(TRUE)
    /\ resolved.isArg3IsParamsObj
    /\ \E i \in AdditionalRecords : events[i].args[2] = Undef

\* C6: with throwErr true the primary message is not written, the
\* additional-data record is written when it applies, and the call throws a
\* new error whose message is the prefixed primary message.
C6_ThrowErrTrueSuppressesPrimary ==
    Done /\ resolved.params.throwErr = Bool(TRUE) =>
        /\ PrimaryRecords = {}
        /\ AdditionalWrittenIfApplies
        /\ ~AdditionalApplies => events = <<>>
        /\ outcome = ThrewNew(ExpectedPrimary)

C6_Witness ==
    /\ Done
    /\ resolved.params.throwErr = Bool(TRUE)
    /\ PrimaryRecords = {}
    /\ AdditionalRecords = {1}
    /\ outcome.k = "throwNew"

\* C7: with throwErr a string s the primary message and the applicable
\* additional-data record are written, then the call throws a new error
\* whose message is the header followed by s.
C7_ThrowErrStringThrowsPrefixedString ==
    Done /\ resolved.params.throwErr.t = "string" =>
        /\ PrimaryWritten
        /\ AdditionalWrittenIfApplies
        /\ outcome = ThrewNew(ExpectedHeader \o resolved.params.throwErr.s)

C7_Witness ==
    /\ Done
    /\ resolved.params.throwErr = Str("boom")
    /\ AdditionalRecords = {2}
    /\ loggers[call.self].prefixParts = <<"root", "body">>
    /\ outcome = ThrewNew("[" \o call.level \o " | root > body] boom")

OptionsSource ==
    IF BagShaped(call.arg3) /\ call.arg4 = Undef THEN call.arg3 ELSE call.arg4

\* C9: with throwErr false, absent or passed as undefined (at arg3 or at
\* arg4) the call does not throw and writes the primary message and the
\* applicable additional-data record.
C9_NoThrowWhenThrowErrFalseOrUndefined ==
    Done /\ Field(OptionsSource, "throwErr") \in {Undef, Bool(FALSE)} =>
        /\ outcome = Returned
        /\ PrimaryWritten
        /\ AdditionalWrittenIfApplies

C9_Witness ==
    /\ Done
    /\ Has(call.arg4, "throwErr") /\ call.arg4.f["throwErr"] = Undef
    /\ call.arg3 = Str("foo and bar")
    /\ outcome = Returned
    /\ PrimaryRecords = {1} /\ AdditionalRecords = {2}

\* The modals the call raised.
Modals == {i \in DOMAIN events : events[i].k = "alert"}

\* The text of the modal: the prefixed primary message, then after a blank
\* line the notes that apply, each on its own line.
ExpectedModalBody ==
    LET notes == (IF AdditionalRecords # {}
                  THEN <<"(see additional data in the console)">> ELSE <<>>)
                 \o (IF Truthy(resolved.params.throwErr)
                     THEN <<"(see an error messaage in the console)">> ELSE <<>>)
    IN  IF notes = <<>> THEN ExpectedPrimary
        ELSE ExpectedPrimary \o "\n\n" \o JoinStr(notes, "\n")

\* C10: with alertMsg true on a host that provides alert, the call raises
\* exactly one modal, whose body is the prefixed primary message followed,
\* after a blank line, by the notes about additional data and about an error
\* that apply.
C10_AlertMsgRaisesOneModal ==
    Done /\ resolved.params.alertMsg = Bool(TRUE) /\ hostHasAlert =>
        /\ Cardinality(Modals) = 1
        /\ \A i \in Modals : events[i].body = ExpectedModalBody

\* What the same call does when its alertMsg is false.
SameCallAlertMsgFalse ==
    LogBody(loggers[call.self].prefixBody, call.level, call.msg,
            [resolved.params EXCEPT !.alertMsg = Bool(FALSE)],
            hostHasAlert, call.errBefore)

\* C11: with alertMsg true on a host without alert the call raises no modal
\* and does not fail on the missing function: its console records, the error
\* it throws (or its return) and the message of a given Error are those of
\* the same call with alertMsg false.
C11_NoAlertHostSkipsModal ==
    Done /\ resolved.params.alertMsg = Bool(TRUE) /\ ~hostHasAlert =>
        /\ Modals = {}
        /\ events = SameCallAlertMsgFalse.events
        /\ outcome = SameCallAlertMsgFalse.outcome
        /\ errMessage = SameCallAlertMsgFalse.errMessage

C11_Witness ==
    /\ Done
    /\ resolved.params.alertMsg = Bool(TRUE)
    /\ ~hostHasAlert
    /\ PrimaryRecords = {1} /\ AdditionalRecords = {2}
    /\ outcome.k = "throwSame"

\* The last method called was log.
LoggedLast == Done /\ call.op = "log"

C14_CloneIsEqualAndIndependent ==
    [][/\ call'.op = "clone" =>
            /\ call'.result \notin DOMAIN loggers
            /\ loggers'[call'.result] = loggers[call'.self]
            /\ \A l \in DOMAIN loggers : loggers'[l] = loggers[l]
       /\ call'.op = "appendPrefix" =>
            /\ DOMAIN loggers' = DOMAIN loggers
            /\ \A l \in DOMAIN loggers \ {call'.self} : loggers'[l] = loggers[l]
            /\ loggers'[call'.self].prefixParts = loggers[call'.self].prefixParts \o call'.prefix
      ]_vars

C14_Witness ==
    /\ call.op = "appendPrefix"
    /\ call.self = 2 /\ call.prefix = <<"foo", "bar">>
    /\ DOMAIN loggers = {1, 2}
    /\ loggers[1].prefixParts = <<"root">>
    /\ loggers[2].prefixParts = <<"root", "foo", "bar">>
    /\ loggers[1].prefixBody = "root"

\* C15: cloneAndAppendPrefix(q1, ..., qm) on a logger holding P returns
\* another logger, holding P followed by q1, ..., qm, and leaves the logger
\* it was called on, and every other one, as it was.
C15_CloneAndAppendLeavesOriginal ==
    [][call'.op = "cloneAndAppendPrefix" =>
            /\ call'.result \notin DOMAIN loggers
            /\ loggers'[call'.result].prefixParts = loggers[call'.self].prefixParts \o call'.prefix
            /\ \A l \in DOMAIN loggers : loggers'[l] = loggers[l]
      ]_vars

C15_Witness ==
    /\ call.op = "cloneAndAppendPrefix"
    /\ call.self = 1 /\ call.prefix = <<"foo", "bar">>
    /\ call.result = 2
    /\ loggers[1].prefixParts = <<"root">>
    /\ loggers[2].prefixParts = <<"root", "foo", "bar">>

\* The text a message has in the output.
MsgText(m) ==
    CASE m = Str("hello world") -> "hello world"
      [] m = Str("") -> ""
      [] m = Num(123) -> "123"
      [] m = Bool(TRUE) -> "true"
      [] m = Undef -> "undefined"
      [] m = Null -> "null"
      [] m = Arr(<<Num(1), Str("hello"), BeepBoop>>) -> "1,hello,[object Object]"
      [] m = Fn("helloWorld") -> "() => 'hello world'"
      [] m = BeepBoop -> "[object Object]"

GivenAdditional ==
    IF BagShaped(call.arg3) /\ call.arg4 = Undef THEN Field(call.arg3, "additional") ELSE call.arg3

\* The throwErr option as the caller gave it.
GivenThrowErr == Field(OptionsSource, "throwErr")

\* C16: with stringifyAdditional true the value part of the additional-data
\* record is JSON.stringify(additional, null, 2) of the additional value the
\* caller gave, in the options bag or at arg3 with the option at arg4: a
\* record with one key on three lines with the key indented by two spaces.
C16_StringifyTrueIsTwoSpaceJson ==
    Done /\ Field(OptionsSource, "stringifyAdditional") = Bool(TRUE) =>
        \A i \in AdditionalRecords :
            /\ events[i].args[2] = JSONstringify(GivenAdditional, Null, Num(2))
            /\ GivenAdditional = FooAndBar =>
                  events[i].args[2] = Str("{\n  \"foo\": \"and bar\"\n}")
            /\ GivenAdditional = Num(123) => events[i].args[2] = Str("123")
            /\ GivenAdditional = Str("foo and bar") => events[i].args[2] = Str("\"foo and bar\"")

C16_Witness ==
    /\ Done
    /\ call.arg3 = FooAndBar
    /\ Field(call.arg4, "stringifyAdditional") = Bool(TRUE)
    /\ AdditionalRecords = {2}
    /\ events[2].args[2] = Str("{\n  \"foo\": \"and bar\"\n}")

\* The stringifyAdditional option as the caller gave it.
GivenStringify == Field(OptionsSource, "stringifyAdditional")

\* The space JSON.stringify is to get for a configuration record: the
\* record's own, or 2 when it has none or an undefined or null one.
SpaceOrTwo(config) ==
    IF Field(config, "space") \in {Undef, Null} THEN Num(2) ELSE Field(config, "space")

\* The texts of { hello: "world", foo: "bar" }.
HelloWorldIndented(gap) ==
    "{\n" \o gap \o "\"hello\": \"world\",\n" \o gap \o "\"foo\": \"bar\"\n}"
HelloWorldCompact == "{\"hello\":\"world\",\"foo\":\"bar\"}"

SerializationFails ==
    /\ Truthy(GivenStringify)
    /\ \/ GivenAdditional = BigIntV(10)
       \/ GivenAdditional = Circular /\ Field(GivenStringify, "replacer").t # "array"

\* C18: when JSON.stringify rejects the additional value the call ends with
\* the TypeError of JSON.stringify; by then the primary message is written,
\* unless throwErr is true, and nothing else: no additional-data record, no
\* modal; the error asked for by throwErr is not thrown and a given Error
\* keeps its message.
C18_SerializationFailurePropagates ==
    Done /\ SerializationFails =>
        /\ outcome = ThrewTypeError
        /\ events = (IF GivenThrowErr = Bool(TRUE) THEN <<>>
                     ELSE <<ConsoleLog(<<Str(ExpectedPrimary)>>)>>)
        /\ AdditionalRecords = {}
        /\ Modals = {}
        /\ errMessage = call.errBefore

C18_Witness ==
    /\ Done
    /\ Field(call.arg3, "additional") = Circular
    /\ Field(call.arg3, "stringifyAdditional") = Bool(TRUE)
    /\ Field(call.arg3, "throwErr") = Err("e1")
    /\ outcome = ThrewTypeError
    /\ Cardinality(DOMAIN events) = 1
    /\ errMessage["e1"] = ErrText

\* The console records of the call, in the order written.
ConsoleRecords == SelectSeq(events, LAMBDA e : e.k = "console")

\* C19: with arg3 undefined and a record at arg4 the options are those of
\* arg4 and there is no additional value. {alwaysLogAdditional: true} gives
\* the primary message and an additional-data record whose value is
\* undefined; {throwErr: true} gives no console record and a new error with
\* the prefixed primary message; {alertMsg: true} gives the primary message
\* as the only console record.
C19_OptionsAtArg4WithoutAdditional ==
    Done /\ call.arg3 = Undef /\ IsRecord(call.arg4) =>
        /\ resolved.params.additional = Undef
        /\ OptionsReadFrom(call.arg4)
        /\ call.arg4 = Obj(<<"alwaysLogAdditional">>, ("alwaysLogAdditional" :> Bool(TRUE))) =>
              /\ ConsoleRecords = <<ConsoleLog(<<Str(ExpectedPrimary)>>),
                                    ConsoleLog(<<Str(ExpectedHeader \o "additional data:\n"), Undef>>)>>
              /\ outcome = Returned
        /\ call.arg4 = Obj(<<"throwErr">>, ("throwErr" :> Bool(TRUE))) =>
              /\ ConsoleRecords = <<>>
              /\ outcome = ThrewNew(ExpectedPrimary)
        /\ call.arg4 = Obj(<<"alertMsg">>, ("alertMsg" :> Bool(TRUE))) =>
              /\ ConsoleRecords = <<ConsoleLog(<<Str(ExpectedPrimary)>>)>>
              /\ outcome = Returned

C19_Witness ==
    /\ Done
    /\ call.arg3 = Undef
    /\ call.arg4 = Obj(<<"alwaysLogAdditional">>, ("alwaysLogAdditional" :> Bool(TRUE)))
    /\ Len(ConsoleRecords) = 2
    /\ ConsoleRecords[2].args[2] = Undef
    /\ outcome = Returned

\* The level an alias stands for.
AliasLevel(op) ==
    CASE op = "logDebug" -> "debug"
      [] op = "logInfo" -> "info"
      [] op = "logWarn" -> "warn"
      [] op = "logError" -> "error"

\* What log does on the same logger with the level of the alias and the
\* arguments of the alias.
SameCallOfLog ==
    LogBody(loggers[call.self].prefixBody, AliasLevel(call.op), call.msg,
            ResolveParams(call.arg3, call.arg4), hostHasAlert, call.errBefore)

\* C20: a call of logDebug, logInfo, logWarn or logError leaves what
\* log('debug' | 'info' | 'warn' | 'error', ...) leaves with the same
\* message and arguments: the same console records and modals in the same
\* order, the same error or return, the same message on a given Error; the
\* records start with the header of that level.
C20_AliasesAreLogAtFixedLevel ==
    Done /\ call.op \in Aliases =>
        LET parts == loggers[call.self].prefixParts
            header == "[" \o AliasLevel(call.op)
                      \o (IF parts = <<>> THEN "" ELSE " | " \o JoinStr(parts, " > ")) \o "] "
        IN  /\ events = SameCallOfLog.events
            /\ outcome = SameCallOfLog.outcome
            /\ errMessage = SameCallOfLog.errMessage
            /\ resolved.params = ResolveParams(call.arg3, call.arg4)
            /\ \A i \in PrimaryRecords : events[i].args[1] = Str(header \o call.msg.s)
            /\ \A i \in AdditionalRecords : events[i].args[1] = Str(header \o "additional data:\n")

C20_Witness ==
    /\ Done
    /\ call.op = "logWarn"
    /\ call.arg3 = Str("foo and bar")
    /\ Field(call.arg4, "throwErr") = Str("boom")
    /\ loggers[call.self].prefixParts = <<"root">>
    /\ events = <<ConsoleLog(<<Str("[warn | root] hello world")>>),
                  ConsoleLog(<<Str("[warn | root] additional data:\n"), Str("foo and bar")>>)>>
    /\ outcome = ThrewNew("[warn | root] boom")

\* The places of the console records among the events of the call.
ConsoleIndexes == {i \in DOMAIN events : events[i].k = "console"}

\* The call threw the error asked for through throwErr.
ThrewRequested == outcome.k \in {"throwNew", "throwSame"}

Arg3IsNeither ==
    call.arg3 = Undef /\ ~resolved.isArg3IsParamsObj /\ resolved.params.additional = Undef
Arg3TakenAsBag ==
    /\ call.arg3 # Undef /\ resolved.isArg3IsParamsObj
    /\ resolved.params.additional = Field(call.arg3, "additional")
Arg3TakenAsAdditional ==
    call.arg3 # Undef /\ ~resolved.isArg3IsParamsObj /\ resolved.params.additional = call.arg3

\* The options arg4 supplies: those of a truthy arg4, none of a falsy one.
Arg4Options == IF Truthy(call.arg4) THEN call.arg4 ELSE Undef

SameCallAttached ==
    LogBody(loggers[call.self].prefixBody, call.level, call.msg,
            ResolveParams(call.arg3, call.arg4), hostHasAlert, call.errBefore)

\* C23: a method called detached from its instance writes the records,
\* raises the modal and throws the error of the same call made on the
\* instance, and the header of its records is made of the prefixes of the
\* instance it was taken from.
C23_DetachedMethodKeepsInstance ==
    Done /\ call.detached =>
        /\ events = SameCallAttached.events
        /\ outcome = SameCallAttached.outcome
        /\ PrimaryRecords = {1}
        /\ events[1].args = <<Str(ExpectedPrimary)>>

C23_Witness ==
    /\ Done
    /\ call.detached
    /\ call.op = "logInfo"
    /\ call.self = 2
    /\ call.arg3 = Num(123)
    /\ events = <<ConsoleLog(<<Str("[info | other] hello world")>>),
                  ConsoleLog(<<Str("[info | other] additional data:\n"), Num(123)>>)>>

Falsy == {Bool(FALSE), Undef, Null, Num(0), Str("")}

\* C25: the call throws the error asked for exactly when the throwErr the
\* caller gave is not falsy (false, undefined, null, 0, ""), and leaves the
\* primary message out exactly when it is the boolean true; a throwErr that
\* is truthy and neither true, a string nor an Error writes the primary
\* message and throws a new error with the prefixed primary message.
C25_ThrowsIffTruthySuppressesIffTrue ==
    Done /\ Has(OptionsSource, "throwErr") =>
        /\ ThrewRequested <=> GivenThrowErr \notin Falsy
        /\ GivenThrowErr \in Falsy => outcome = Returned
        /\ PrimaryRecords = {} <=> GivenThrowErr = Bool(TRUE)
        /\ GivenThrowErr # Bool(TRUE) => PrimaryWritten
        /\ AdditionalWrittenIfApplies
        /\ GivenThrowErr \notin Falsy \cup {Bool(TRUE)} /\ GivenThrowErr.t \notin {"string", "error"} =>
              outcome = ThrewNew(ExpectedPrimary)

C25_Witness ==
    /\ Done
    /\ GivenThrowErr = EmptyObj
    /\ call.arg3 = Str("foo and bar")
    /\ PrimaryRecords = {1} /\ AdditionalRecords = {2}
    /\ outcome = ThrewNew(ExpectedPrimary)

\* C26: after the call, returned or thrown, the objects the caller passed at
\* arg3 and arg4, and a stringifyAdditional configuration record inside
\* them, have the keys and values they had before the call.
C26_CallerObjectsUnchanged ==
    Done => argsAfter = <<call.arg3, call.arg4>>

\* The calls that log: log itself and its aliases.
LoggingOps == {"log"} \cup Aliases

\* C27: a call of log or of an alias leaves every logger as it was, whether
\* it returns, throws the error asked for or fails in the serialization;
\* so the header of a call is made of the prefixes the constructor and the
\* calls of appendPrefix gave the logger, whatever was logged and thrown
\* before, and a call after one that threw writes as it would have.
C27_LoggingLeavesPrefixes ==
    [][call'.op \in LoggingOps =>
            /\ loggers' = loggers
            /\ LET parts == loggers[call'.self].prefixParts
                   header == "[" \o call'.level
                             \o (IF parts = <<>> THEN "" ELSE " | " \o JoinStr(parts, " > ")) \o "] "
               IN  /\ events' # <<>> => events'[1].args[1].s \in
                          {header \o call'.msg.s, header \o "additional data:\n"}
                   /\ outcome'.k = "throwNew" => outcome'.message \in
                          {header \o call'.msg.s, header \o "boom"}
      ]_vars

\* A call of logWarn that wrote and threw on a logger whose prefixes came
\* from the constructor and from appendPrefix.
C27_Witness ==
    /\ call.op = "logWarn"
    /\ call.arg3 = Str("foo and bar")
    /\ loggers[1].prefixParts = <<"root", "foo", "bar">>
    /\ events[1].args[1] = Str("[warn | root > foo > bar] hello world")
    /\ outcome = ThrewNew("[warn | root > foo > bar] boom")

\* s is an initial part of t.
IsPrefixOf(s, t) == Len(s) <= Len(t) /\ SubSeq(t, 1, Len(s)) = s

\* C28: in every state the body of every logger is its prefixes joined with
\* " > "; a logger made with prefixes holds exactly those, as an empty one
\* they were appended to would; every operation leaves each logger's sequence
\* an initial part of what it becomes, and appendPrefix extends the sequence
\* of its logger by exactly its arguments, in order (by nothing when there
\* are none).
C28_BodyIsJoinAndAppendOnly ==
    /\ [](\A id \in DOMAIN loggers :
              loggers[id].prefixBody = JoinStr(loggers[id].prefixParts, " > "))
    /\ [](call.op = "new" => loggers[call.result].prefixParts = <<>> \o call.prefix)
    /\ [][/\ \A id \in DOMAIN loggers :
                /\ id \in DOMAIN loggers'
                /\ IsPrefixOf(loggers[id].prefixParts, loggers'[id].prefixParts)
          /\ call'.op = "appendPrefix" =>
                /\ loggers'[call'.self].prefixParts
                      = loggers[call'.self].prefixParts \o call'.prefix
                /\ \A id \in DOMAIN loggers \ {call'.self} : loggers'[id] = loggers[id]
         ]_vars

\* appendPrefix('foo', 'bar') was called on a logger made as new Logger('root').
C28_Witness ==
    /\ call.op = "appendPrefix"
    /\ call.prefix = <<"foo", "bar">>
    /\ loggers[call.self].prefixParts = <<"root", "foo", "bar">>
    /\ loggers[call.self].prefixBody = "root > foo > bar"

\* The header of a call: the level, then the prefixes of its logger if it has
\* any.
HeaderOf(c) ==
    LET parts == loggers[c.self].prefixParts
    IN  "[" \o c.level \o (IF parts = <<>> THEN "" ELSE " | " \o JoinStr(parts, " > ")) \o "] "

\* The headers of the calls, the one of the last call first.
RECURSIVE HeadersOf(_)
HeadersOf(calls) ==
    IF calls = <<>> THEN "" ELSE HeadersOf(Tail(calls)) \o HeaderOf(Head(calls))

C30_Arg4AdditionalIsNeverRead ==
    Done /\ IsRecord(call.arg4) =>
        /\ resolved.params.additional = call.arg3
        /\ AdditionalRecords # {} <=>
              (call.arg3 # Undef \/ Field(call.arg4, "alwaysLogAdditional") = Bool(TRUE))
        /\ ~Has(call.arg4, "stringifyAdditional") =>
              \A i \in AdditionalRecords : events[i].args[2] = call.arg3

\* log(level, msg, 'foo and bar', {additional: 456}) wrote 'foo and bar'.
C30_Witness ==
    /\ Done
    /\ call.arg3 = Str("foo and bar")
    /\ call.arg4 = Obj(<<"additional">>, ("additional" :> Num(456)))
    /\ AdditionalRecords = {2}
    /\ events[2].args[2] = Str("foo and bar")

====
